---- MODULE Spec2Model ----
(***************************************************************************)
(* Request scheduler and backend lifecycle of the local ASR service:       *)
(* src/services/transcription.py (TranscriptionService), the lifespan of   *)
(* src/main.py that starts and stops it, and the load/release/transcribe   *)
(* contract of the engines in src/core; and the admission checks of the    *)
(* route POST /v1/audio/transcriptions (src/api/routes.py) with the model  *)
(* registry (src/core/model_registry.py).  Spec is the scheduler with its  *)
(* lifespan; AdmSpec applies the route to enumerated requests; ErrSpec is  *)
(* the answer of the route to a job the worker has finished; RegSpec is    *)
(* the resolution of model names; EngSpec is a pair of backends called     *)
(* directly; CancelSpec is the scheduler with waiters that are cancelled;  *)
(* TsSpec is the route and the worker on requests that ask for timestamps. *)
(*                                                                         *)
(* Granularity.  The service runs on one asyncio event loop.  Code between *)
(* two awaits that really suspend is one atomic action.  The awaits that   *)
(* suspend are: queue.get() on an empty queue, queue.put() on a full       *)
(* queue, the wait on a job's future, and every run_in_threadpool call.    *)
(* A thread-pool call is split in the action that dispatches it (the call  *)
(* is then in `active`) and the action in which the awaiting coroutine     *)
(* resumes with its outcome.                                               *)
(***************************************************************************)
EXTENDS Integers, Sequences, FiniteSets, TLC

\* ---- bounds of the model ----
MaxJobs == 3
\* direct calls made on the backends in the backend specification
MaxCalls == 4
Q == 2

\* ---- values ----
Jobs == 1..MaxJobs
\* Backend instances: 0 is the engine created at startup, instance j is the
\* engine create_engine_for_spec builds for the swap requested by job j.
Engines == 0..MaxJobs
Sentinel == 0
NoSpec == "none"
Specs == {"paraformer", "qwen3-asr"}
StartSpec == "paraformer"
\* no create_transcription call is under admission
NoRequest == [pc |-> "none"]

\* The model registry: alias |-> spec (the description is left out).
_REGISTRY ==
    [a \in {"paraformer", "qwen3-asr-mini", "qwen3-asr", "parakeet",
            "sensevoice-small"} |->
       [alias |-> a,
        model_id |->
           CASE a = "paraformer" ->
                  "iic/speech_seaco_paraformer_large_asr_nat-zh-cn-16k-common-vocab8404-pytorch"
             [] a = "qwen3-asr-mini" -> "mlx-community/Qwen3-ASR-1.7B-4bit"
             [] a = "qwen3-asr" -> "mlx-community/Qwen3-ASR-1.7B-8bit"
             [] a = "parakeet" -> "mlx-community/parakeet-tdt-0.6b-v2"
             [] a = "sensevoice-small" -> "iic/SenseVoiceSmall",
        engine_type |->
           IF a \in {"paraformer", "sensevoice-small"} THEN "funasr"
           ELSE "mlx",
        timestamp |-> a # "sensevoice-small",
        diarization |-> a = "paraformer",
        emotion_tags |-> a = "sensevoice-small",
        language_detect |-> a # "parakeet"]]

VARIABLES
    lpc,                \* position of the lifespan coroutine
    queue,              \* self.queue: job ids and the Sentinel
    is_running,         \* self.is_running
    engine,             \* self.engine: the backend instance in use
    current_model_spec, \* self._current_model_spec
    engine_degraded,    \* self._engine_degraded
    loaded,             \* per backend instance: self.model is not None
    active,             \* backend calls dispatched and not yet returned
    wpc,                \* position of _consume_loop
    wjob,               \* the job _consume_loop is processing (0: none)
    old_engine,         \* locals of _switch_model
    old_spec,
    new_engine,
    req,                \* job.requested_model_spec
    spec_for_response,  \* create_transcription: spec named in the response
    route,              \* the create_transcription call under admission
    status,             \* position of each submit call
    future,             \* job.future
    scratch,            \* job.temp_dir exists
    swaplog,            \* backend calls of the swap in progress, in order
    raced,              \* the shutdown release cleared a model that a
                        \* concurrent restore load had just assigned
    prev                \* the job the worker finished last (0: none)

vars == <<lpc, queue, is_running, engine, current_model_spec, engine_degraded,
          loaded, active, wpc, wjob, old_engine, old_spec, new_engine, req,
          spec_for_response, route, status, future, scratch, swaplog, raced,
          prev>>

\* ---- helpers ----

Call(op, e, by, j) ==
    [op |-> op, inst |-> e, by |-> by, job |-> j, ld |-> loaded[e]]

WorkerCalls == {c \in active : c.by = "worker"}

Ev(op, e, ev) == [op |-> op, inst |-> e, ev |-> ev]

\* The event loop is held by the lifespan coroutine between the return of
\* stop_worker and the end of the synchronous engine.release().
LoopFree == lpc \notin {"stopped", "releasing"}

QueueFull_OffByOne == Len(queue) > Q

\* submit does not look at the queue before it makes the job
QueueFull_NotChecked == FALSE

\* asyncio.Queue.full()
QueueFull == Len(queue) >= Q

\* the new entry is put in front of the waiting ones
Enqueue_Front(q, x) == <<x>> \o q

\* asyncio.Queue is first-in first-out: put appends at the tail, get takes
\* the head.
Enqueue(q, x) == Append(q, x)

\* engine.release(): self.model = None
ReleaseEffect(e) == [loaded EXCEPT ![e] = FALSE]

\* engine.load(): self.model = <model>
LoadEffect(e) == [loaded EXCEPT ![e] = TRUE]

\* the outcome is set on the future whether or not it is done
Publish_NoDoneCheck(j, outcome) == [future EXCEPT ![j] = outcome]

\* `if not job.future.done(): job.future.set_result / set_exception`
Publish(j, outcome) ==
    [future EXCEPT ![j] = IF @ = "pending" THEN outcome ELSE @]

ScratchAfterFinally_Leak(j) == scratch

\* finally: shutil.rmtree(job.temp_dir, ignore_errors=True).  The directory
\* and the one file in it were created by this process: the removal succeeds.
ScratchAfterFinally(j) == [scratch EXCEPT ![j] = FALSE]

WorkerAtGet_NoAwait == wpc \in {"get", "transcribe"}

\* `await self.queue.get()`: the worker is suspended at the top of its loop.
WorkerAtGet == wpc = "get"

DegradedGuard_Off == FALSE

\* `if self._engine_degraded: raise`
DegradedGuard == engine_degraded

\* every job that names a model is swapped for
NeedsSwitch_Always(j) == req[j] # NoSpec

\* `requested is not None and requested != self._current_model_spec`
NeedsSwitch(j) == req[j] # NoSpec /\ req[j] # current_model_spec

\* The spec a backend instance was built for: create_engine() builds the
\* startup model of the configuration, create_engine_for_spec(new_spec) the
\* model the job of the swap requested.
EngineSpec(e) == IF e = 0 THEN StartSpec ELSE req[e]

\* GET /v1/models: `current_spec.alias if current_spec else None`; the same
\* expression gives model_alias of GET /v1/models/current.
list_models_current ==
    IF current_model_spec = NoSpec THEN NoSpec
    ELSE _REGISTRY[current_model_spec].alias

\* ---- the end of a job: publication, finally, and the loop test ----
\* the worker leaves its loop when a job has failed
FinishJob_StopOnError(j, outcome) ==
    /\ future' = Publish(j, outcome)
    /\ scratch' = ScratchAfterFinally(j)
    /\ wpc' = IF is_running /\ outcome = "result" THEN "get" ELSE "done"
    /\ wjob' = 0
    /\ old_engine' = 0
    /\ old_spec' = NoSpec
    /\ new_engine' = 0
    /\ swaplog' = <<>>
    /\ prev' = j

FinishJob(j, outcome) ==
    /\ future' = Publish(j, outcome)
    /\ scratch' = ScratchAfterFinally(j)
    /\ wpc' = IF is_running THEN "get" ELSE "done"
    /\ wjob' = 0
    /\ old_engine' = 0
    /\ old_spec' = NoSpec
    /\ new_engine' = 0
    /\ swaplog' = <<>>
    /\ prev' = j

Init ==
    /\ lpc = "boot"
    /\ queue = <<>>
    /\ is_running = FALSE
    /\ engine = 0
    /\ current_model_spec = NoSpec
    /\ engine_degraded = FALSE
    /\ loaded = [e \in Engines |-> FALSE]
    /\ active = {}
    /\ wpc = "idle"
    /\ wjob = 0
    /\ old_engine = 0
    /\ old_spec = NoSpec
    /\ new_engine = 0
    /\ req = [j \in Jobs |-> NoSpec]
    /\ spec_for_response = [j \in Jobs |-> NoSpec]
    /\ route = NoRequest
    /\ status = [j \in Jobs |-> "new"]
    /\ future = [j \in Jobs |-> "none"]
    /\ scratch = [j \in Jobs |-> FALSE]
    /\ swaplog = <<>>
    /\ raced = FALSE
    /\ prev = 0

\* ---- lifespan: startup ----
\* create_engine(); engine.load(); TranscriptionService(...); start_worker().
\* A load that raises ends the lifespan before the service exists.  main.py
\* constructs the service without initial_model_spec (None); the unit tests
\* construct it with the spec of the startup model: both are covered.
LifespanStartup ==
    /\ lpc = "boot"
    /\ \E ok \in BOOLEAN, init_spec \in {NoSpec, StartSpec} :
        IF ok
        THEN /\ loaded' = LoadEffect(0)
             /\ current_model_spec' = init_spec
             /\ is_running' = TRUE
             /\ wpc' = "get"
             /\ lpc' = "running"
        ELSE /\ lpc' = "failed"
             /\ UNCHANGED <<loaded, current_model_spec, is_running, wpc>>
    /\ UNCHANGED <<queue, engine, engine_degraded, active, wjob, old_engine,
                   old_spec, new_engine, req, spec_for_response, route, status,
                   future, scratch, swaplog, raced, prev>>

\* ---- admission: TranscriptionService.submit ----
\* Jobs are numbered in the order of their submit calls; r is model_spec.
\* There is no await between the full() test and the put, which therefore
\* finds room; a put that found none would suspend ("putwait").
\* the directory made by mkdtemp is left behind when the copy fails
ScratchAfterCopyFails_Leak(j) == [scratch EXCEPT ![j] = TRUE]

\* mkdtemp, then the copy raises: `except Exception: if exists(temp_dir):
\* shutil.rmtree(temp_dir, ignore_errors=True)`
ScratchAfterCopyFails(j) == [scratch EXCEPT ![j] = FALSE]

Submit(j, r) ==
    /\ lpc \in {"running", "stopping"}
    /\ status[j] = "new"
    /\ \A k \in Jobs : k < j => status[k] # "new"
    /\ IF QueueFull
       THEN /\ status' = [status EXCEPT ![j] = "rejected"]
            /\ UNCHANGED <<queue, req, future, scratch>>
       ELSE \E written \in BOOLEAN :
            IF ~written
            THEN \* mkdtemp, the copy raises, except: rmtree, raise
                 /\ status' = [status EXCEPT ![j] = "ioerror"]
                 /\ scratch' = ScratchAfterCopyFails(j)
                 /\ UNCHANGED <<queue, req, future>>
            ELSE /\ req' = [req EXCEPT ![j] = r]
                 /\ scratch' = [scratch EXCEPT ![j] = TRUE]
                 /\ future' = [future EXCEPT ![j] = "pending"]
                 /\ IF Len(queue) < Q
                    THEN /\ queue' = Enqueue(queue, j)
                         /\ status' = [status EXCEPT ![j] = "waiting"]
                    ELSE /\ queue' = queue
                         /\ status' = [status EXCEPT ![j] = "putwait"]
    /\ UNCHANGED <<lpc, is_running, engine, current_model_spec,
                   engine_degraded, loaded, active, wpc, wjob, old_engine,
                   old_spec, new_engine, swaplog, raced, prev>>

\* create_transcription from `spec_for_response = ...` to the suspension in
\* `await service.submit(...)`: no await lies between the capture of the
\* spec and the put of submit.  The captured spec is a local of the call; it
\* is recorded for the calls that go on to wait for a result.  A request
\* without a model (r = NoSpec) gets here only with an engine that provides
\* the `capabilities` of the ASREngine protocol (see engine_capabilities).
SubmitFromRoute(j, r) ==
    /\ Submit(j, r)
    /\ spec_for_response' =
          IF status'[j] \in {"waiting", "putwait"}
          THEN [spec_for_response EXCEPT
                  ![j] = IF r # NoSpec THEN r ELSE current_model_spec]
          ELSE spec_for_response

\* `spec_for_response.alias if isinstance(spec_for_response, ModelSpec)
\*  else str(app.state.model_id)`: the `model` field of the response.
response_model(j) ==
    IF spec_for_response[j] # NoSpec
    THEN _REGISTRY[spec_for_response[j]].alias
    ELSE _REGISTRY[StartSpec].model_id

\* ---- the route: create_transcription up to `await service.submit` ----

\* an absent form field or attribute (Python None)
None == "None"

ALLOWED_AUDIO_TYPES ==
    {"audio/wav", "audio/x-wav", "audio/mpeg", "audio/mp3", "audio/mp4",
     "audio/x-m4a", "audio/flac", "audio/ogg", "audio/webm"}

ALLOWED_AUDIO_EXTENSIONS ==
    {".wav", ".mp3", ".m4a", ".mp4", ".flac", ".ogg", ".webm"}

_RESPONSE_FORMAT_MAP ==
    [f \in {"verbose_json", "text", "vtt"} |->
       CASE f = "verbose_json" -> "json"
         [] f = "text" -> "txt"
         [] f = "vtt" -> "srt"]

MAX_UPLOAD_SIZE_MB == 200

_OPENAI_PASSTHROUGH_VALUES == {"whisper-1", ""}

\* str.lower() on the letters that occur in the inputs
LowerChar(c) ==
    CASE c = "A" -> "a" [] c = "F" -> "f" [] c = "N" -> "n" [] c = "R" -> "r"
      [] c = "Q" -> "q" [] c = "M" -> "m" [] c = "L" -> "l" [] c = "X" -> "x"
      [] c = "S" -> "s" [] c = "U" -> "u" [] c = "V" -> "v" [] c = "W" -> "w"
      [] OTHER -> c

RECURSIVE lower(_)
lower(str) ==
    IF Len(str) = 0 THEN ""
    ELSE LowerChar(SubSeq(str, 1, 1)) \o lower(SubSeq(str, 2, Len(str)))

\* str.startswith(prefix) and `sub in str`
startswith(str, prefix) ==
    Len(str) >= Len(prefix) /\ SubSeq(str, 1, Len(prefix)) = prefix

contains(str, sub) ==
    \E i \in 1..Len(str) :
       i + Len(sub) - 1 <= Len(str) /\ SubSeq(str, i, i + Len(sub) - 1) = sub

\* model_id -> alias of the registered models
_MODEL_ID_TO_ALIAS(model_id) ==
    {a \in DOMAIN _REGISTRY : _REGISTRY[a].model_id = model_id}

\* ModelSpec(alias=model, model_id=model, engine_type=inferred_engine,
\*           capabilities=EngineCapabilities())
AdHocSpec(model, inferred_engine) ==
    [alias |-> model, model_id |-> model, engine_type |-> inferred_engine,
     timestamp |-> FALSE, diarization |-> FALSE, emotion_tags |-> FALSE,
     language_detect |-> FALSE]

\* the outcome of a call: the value returned, or the exception raised
Returned(v) == [raised |-> None, message |-> "", value |-> v]
Raised(kind, message) ==
    [raised |-> kind, message |-> message, value |-> AdHocSpec("", None)]

UnknownModelMessage(model) ==
    "Unknown model: '" \o model \o "'. "
    \o "Use GET /v1/models to see built-in models, "
    \o "or pass a full path prefixed with 'mlx-community/' or 'iic/'."

\* the engine type is inferred from the prefix before the registered
\* model ids are consulted
lookup_PrefixFirst(model) ==
    IF model \in DOMAIN _REGISTRY THEN Returned(_REGISTRY[model])
    ELSE IF startswith(model, "mlx-community/")
    THEN Returned(AdHocSpec(model, "mlx"))
    ELSE IF startswith(model, "iic/") \/ contains(lower(model), "funasr")
    THEN Returned(AdHocSpec(model, "funasr"))
    ELSE IF _MODEL_ID_TO_ALIAS(model) # {}
    THEN Returned(_REGISTRY[CHOOSE a \in _MODEL_ID_TO_ALIAS(model) : TRUE])
    ELSE Raised("ValueError", UnknownModelMessage(model))

\* "funasr" is searched in the string as given
lookup_CaseSensitive(model) ==
    IF model \in DOMAIN _REGISTRY THEN Returned(_REGISTRY[model])
    ELSE IF _MODEL_ID_TO_ALIAS(model) # {}
    THEN Returned(_REGISTRY[CHOOSE a \in _MODEL_ID_TO_ALIAS(model) : TRUE])
    ELSE IF startswith(model, "mlx-community/")
    THEN Returned(AdHocSpec(model, "mlx"))
    ELSE IF startswith(model, "iic/") \/ contains(model, "funasr")
    THEN Returned(AdHocSpec(model, "funasr"))
    ELSE Raised("ValueError", UnknownModelMessage(model))

\* lookup(model): alias, then registered model_id, then the prefix
lookup(model) ==
    IF model \in DOMAIN _REGISTRY THEN Returned(_REGISTRY[model])
    ELSE IF _MODEL_ID_TO_ALIAS(model) # {}
    THEN Returned(_REGISTRY[CHOOSE a \in _MODEL_ID_TO_ALIAS(model) : TRUE])
    ELSE IF startswith(model, "mlx-community/")
    THEN Returned(AdHocSpec(model, "mlx"))
    ELSE IF startswith(model, "iic/") \/ contains(lower(model), "funasr")
    THEN Returned(AdHocSpec(model, "funasr"))
    ELSE Raised("ValueError", UnknownModelMessage(model))

\* The scheduler and the route compare and carry specs; there a spec is
\* represented by its alias (the ad-hoc spec of a path by the path), and
\* "ValueError" stands for the exception of lookup.
lookup_alias(model) ==
    IF lookup(model).raised # None THEN "ValueError"
    ELSE lookup(model).value.alias

\* spec.capabilities.timestamp: registered specs declare it, an ad-hoc spec
\* has EngineCapabilities() with every capability False
spec_timestamp(spec) ==
    IF spec \in DOMAIN _REGISTRY THEN _REGISTRY[spec].timestamp ELSE FALSE

\* the empty string is not taken for a passthrough value
is_passthrough_NoEmpty(model) == model = None \/ model = "whisper-1"

is_passthrough(model) ==
    model = None \/ model \in _OPENAI_PASSTHROUGH_VALUES

\* _resolve_model: NoSpec for passthrough, "ValueError" for HTTP 400
_resolve_model(model) ==
    IF is_passthrough(model) THEN NoSpec ELSE lookup_alias(model)

\* os.path.splitext(name)[1] of a name without directory part: from the
\* last dot on, leading dots not counted
splitext_ext(name) ==
    LET dots == {i \in 1..Len(name) : SubSeq(name, i, i) = "."}
        last == CHOOSE k \in dots : \A i \in dots : i <= k
    IN  IF dots = {} THEN ""
        ELSE IF \A i \in 1..last : i \in dots THEN ""
        ELSE SubSeq(name, last, Len(name))

\* the extension is compared without `.lower()`
is_valid_type_NoLower(content_type, filename) ==
    \/ content_type \in ALLOWED_AUDIO_TYPES
    \/ /\ content_type = "application/octet-stream"
       /\ splitext_ext(IF filename = None THEN "" ELSE filename)
             \in ALLOWED_AUDIO_EXTENSIONS

\* 1. the type check: the MIME type is allowed, or it is
\* application/octet-stream and the extension of the file name is allowed
is_valid_type(content_type, filename) ==
    \/ content_type \in ALLOWED_AUDIO_TYPES
    \/ /\ content_type = "application/octet-stream"
       /\ lower(splitext_ext(IF filename = None THEN "" ELSE filename))
             \in ALLOWED_AUDIO_EXTENSIONS

\* file_size_bytes / (1024 * 1024): the quotient by a power of two is exact
\* in binary floating point; it is kept as whole part and remainder
file_size_mb(file_size_bytes) ==
    [whole |-> file_size_bytes \div (1024 * 1024),
     frac |-> file_size_bytes % (1024 * 1024)]

\* the size is compared after truncation to whole megabytes
exceeds_Truncated(mb, limit) == mb.whole > limit

\* 2. `file_size_mb > MAX_UPLOAD_SIZE_MB`
exceeds(mb, limit) == mb.whole > limit \/ (mb.whole = limit /\ mb.frac > 0)

\* output_format is used although response_format is given
effective_format_OutputWins(response_format, output_format) ==
    IF output_format \in DOMAIN _RESPONSE_FORMAT_MAP
    THEN _RESPONSE_FORMAT_MAP[output_format] ELSE output_format

\* 4. response_format if given, else output_format, through
\* _RESPONSE_FORMAT_MAP.get(value, value)
effective_format(response_format, output_format) ==
    LET given == IF response_format # None THEN response_format
                 ELSE output_format
    IN  IF given \in DOMAIN _RESPONSE_FORMAT_MAP
        THEN _RESPONSE_FORMAT_MAP[given] ELSE given

\* service.engine.capabilities: FunASREngine and MlxAudioEngine, the only
\* classes the factory instantiates, define no attribute `capabilities`, and
\* the read raises AttributeError.
engine_capabilities(e) == [raised |-> "AttributeError", timestamp |-> FALSE]

\* GET /v1/models/current: the handler has no await, its answer is a
\* function of the state it is served in.  reads_engine tells that
\* `service.engine.capabilities` was evaluated; the fields of an answer that
\* raised are place holders.
get_current_model ==
    IF current_model_spec # NoSpec
    THEN [raised |-> None,
          engine_type |-> _REGISTRY[current_model_spec].engine_type,
          model_id |-> _REGISTRY[current_model_spec].model_id,
          model_alias |-> _REGISTRY[current_model_spec].alias,
          timestamp |-> _REGISTRY[current_model_spec].timestamp,
          reads_engine |-> FALSE]
    ELSE [raised |-> engine_capabilities(engine).raised,
          engine_type |-> _REGISTRY[StartSpec].engine_type,
          model_id |-> _REGISTRY[StartSpec].model_id,
          model_alias |-> None,
          timestamp |-> engine_capabilities(engine).timestamp,
          reads_engine |-> TRUE]

\* no request is refused for its capabilities
effective_caps_NoGating(resolved_spec) ==
    [raised |-> None, timestamp |-> TRUE]

\* 5. the capabilities the request is validated against: those of the
\* resolved spec, or of the live engine for a passthrough request
effective_caps(resolved_spec) ==
    IF resolved_spec # NoSpec
    THEN [raised |-> None, timestamp |-> spec_timestamp(resolved_spec)]
    ELSE engine_capabilities(engine)

\* The outcome of the checks of create_transcription, in the order of the
\* code: code 0 when all of them pass, else the HTTP status raised.  pos is
\* the position of the upload stream, effective_format and resolved_spec are
\* the locals computed so far.
Reject(rq, code, detail, pos, res, fmt) ==
    [rq EXCEPT !.pc = "done", !.code = code, !.detail = detail, !.pos = pos,
               !.resolved_spec = res, !.effective_format = fmt]

Admission(rq) ==
    IF ~is_valid_type(rq.content_type, rq.filename)
    THEN Reject(rq, 415, "unsupported file type", rq.pos, None, None)
    ELSE IF exceeds(file_size_mb(rq.size), MAX_UPLOAD_SIZE_MB)
    THEN \* seek(0, 2) was done, seek(0) was not
         Reject(rq, 413, "file size exceeds maximum", rq.size, None, None)
    ELSE
    LET res == _resolve_model(rq.model)
        fmt == effective_format(rq.response_format, rq.output_format)
        caps == effective_caps(res)
    IN  IF res = "ValueError"
        THEN Reject(rq, 400, "unknown model", 0, None, None)
        ELSE IF caps.raised # None
        THEN \* not caught by the route: the framework answers 500
             Reject(rq, 500, caps.raised, 0, res, fmt)
        ELSE IF fmt = "srt" /\ ~caps.timestamp
        THEN Reject(rq, 400, "srt requires timestamp", 0, res, fmt)
        ELSE IF rq.with_timestamp /\ ~caps.timestamp
        THEN Reject(rq, 400, "with_timestamp requires timestamp", 0, res,
                    fmt)
        ELSE [rq EXCEPT !.pc = "submit", !.pos = 0, !.resolved_spec = res,
                        !.effective_format = fmt]

\* ---- exceptions that reach the handlers of create_transcription ----
NoExc == [type |-> None, text |-> ""]

\* submit: `raise RuntimeError("Service busy: Queue is full.")`
QueueFullError ==
    [type |-> "RuntimeError", text |-> "Service busy: Queue is full."]

\* submit: the copy of the upload into the scratch directory raises
CopyError == [type |-> "OSError", text |-> "No space left on device"]

\* _consume_loop: the degraded engine guard
DegradedError ==
    [type |-> "RuntimeError",
     text |-> "Service is in a degraded state (engine unrecoverable). "
              \o "Manual restart required."]

\* transcribe_file on an engine without model
NotLoadedError ==
    [type |-> "RuntimeError",
     text |-> "Model not loaded! Call engine.load() first."]

\* spec.alias, "unknown" for no spec
alias_or_unknown(spec) == IF spec = NoSpec THEN "unknown" ELSE spec

\* _switch_model: release of the old engine raised e
ReleaseAbortError(old_alias, e) ==
    [type |-> "RuntimeError",
     text |-> "Model switch aborted: failed to release '" \o old_alias
              \o "' (" \o e.text \o "). "
              \o "The current engine is still loaded and usable."]

\* _switch_model: load raised load_err and the restore raised restore_err
UnrecoverableError(new_alias, load_err, old_alias, restore_err) ==
    [type |-> "RuntimeError",
     text |-> "Engine unrecoverable: switch to '" \o new_alias
              \o "' failed (" \o load_err.text \o "), restore of '"
              \o old_alias \o "' also failed (" \o restore_err.text
              \o "). Service must be restarted."]

ServerBusyDetail == "Server is busy (Queue Full). Please try again later."

InternalErrorDetail(request_id) ==
    "Internal server error occurred. (Request ID: " \o request_id \o ")"

\* `except RuntimeError as e` and `except Exception as e` of
\* create_transcription: the HTTPException raised for exception e
except_handler(e, request_id) ==
    IF e.type = "RuntimeError" /\ contains(e.text, "Queue is full")
    THEN [code |-> 503, detail |-> ServerBusyDetail]
    ELSE [code |-> 500, detail |-> InternalErrorDetail(request_id)]

\* what `await service.submit` raises at once, by the status submit left
submit_raised(st) ==
    CASE st = "rejected" -> QueueFullError
      [] st = "ioerror" -> CopyError
      [] OTHER -> NoExc

\* POST /v1/audio/transcriptions: the handler from its start to its first
\* suspension (in submit) or to the HTTP error it raises.  The upload is
\* copied by submit from the stream position the checks left.
create_transcription(j) ==
    /\ route.pc = "start"
    /\ status[j] = "new"
    /\ \A k \in Jobs : k < j => status[k] # "new"
    /\ LET a == Admission(route) IN
       IF a.pc = "done"
       THEN /\ route' = a
            /\ UNCHANGED <<lpc, queue, is_running, engine,
                           current_model_spec, engine_degraded, loaded,
                           active, wpc, wjob, old_engine, old_spec,
                           new_engine, req, spec_for_response, status,
                           future, scratch, swaplog, raced, prev>>
       ELSE /\ SubmitFromRoute(j, a.resolved_spec)
            /\ route' =
                  [a EXCEPT
                     !.job = j,
                     !.pc = IF status'[j] \in {"waiting", "putwait"}
                            THEN "waiting" ELSE "done",
                     !.exc = submit_raised(status'[j]),
                     !.code =
                        IF submit_raised(status'[j]) = NoExc THEN 0
                        ELSE except_handler(submit_raised(status'[j]),
                                            a.request_id).code,
                     !.detail =
                        IF submit_raised(status'[j]) = NoExc THEN ""
                        ELSE except_handler(submit_raised(status'[j]),
                                            a.request_id).detail]

\* create_transcription resumes from `await service.submit(...)` with the
\* result or the exception the worker published for job j, and answers.
create_transcription_resume(j) ==
    /\ LoopFree
    /\ route.pc = "waiting"
    /\ route.job = j
    /\ status[j] = "waiting"
    /\ future[j] \notin {"none", "pending"}
    /\ status' = [status EXCEPT ![j] = "returned"]
    /\ route' =
          IF future[j] = "result"
          THEN [route EXCEPT !.pc = "done", !.code = 200]
          ELSE [route EXCEPT
                  !.pc = "done",
                  !.code = except_handler(route.exc, route.request_id).code,
                  !.detail =
                     except_handler(route.exc, route.request_id).detail]
    /\ UNCHANGED <<lpc, queue, is_running, engine, current_model_spec,
                   engine_degraded, loaded, active, wpc, wjob, old_engine,
                   old_spec, new_engine, req, spec_for_response, future,
                   scratch, swaplog, raced, prev>>

\* The waiter of job j resumes from `await future`.
WaiterReturn(j) ==
    /\ LoopFree
    /\ status[j] = "waiting"
    /\ future[j] \notin {"none", "pending"}
    /\ status' = [status EXCEPT ![j] = "returned"]
    /\ UNCHANGED <<lpc, queue, is_running, engine, current_model_spec,
                   engine_degraded, loaded, active, wpc, wjob, old_engine,
                   old_spec, new_engine, req, spec_for_response, route, future,
                   scratch, swaplog, raced, prev>>

\* The client of job j disconnects and the task of its handler is
\* cancelled while it waits in `await future`: the cancellation of the task
\* cancels the future it awaits, CancelledError leaves submit past
\* `except Exception` (it is a BaseException), nothing is removed.
WaiterCancel(j) ==
    /\ LoopFree
    /\ status[j] = "waiting"
    /\ status' = [status EXCEPT ![j] = "cancelled"]
    /\ future' = [future EXCEPT ![j] = IF @ = "pending" THEN "cancelled"
                                      ELSE @]
    /\ UNCHANGED <<lpc, queue, is_running, engine, current_model_spec,
                   engine_degraded, loaded, active, wpc, wjob, old_engine,
                   old_spec, new_engine, req, spec_for_response, route,
                   scratch, swaplog, raced, prev>>

\* ---- the worker: TranscriptionService._consume_loop ----

\* the swap loads the new engine without releasing the old one
BeginSwitch_NoRelease(j) ==
    /\ wpc' = "load"
    /\ wjob' = j
    /\ old_engine' = engine
    /\ old_spec' = current_model_spec
    /\ new_engine' = j
    /\ active' = active \cup
          {[op |-> "load", inst |-> j, by |-> "worker", job |-> j,
            ld |-> FALSE]}
    /\ swaplog' = <<Ev("load", j, "begin")>>

\* the release is dispatched but not awaited before the load is dispatched
BeginSwitch_NoAwait(j) ==
    /\ wpc' = "load"
    /\ wjob' = j
    /\ old_engine' = engine
    /\ old_spec' = current_model_spec
    /\ new_engine' = j
    /\ active' = active \cup
          {Call("release", engine, "worker", j),
           [op |-> "load", inst |-> j, by |-> "worker", job |-> j,
            ld |-> FALSE]}
    /\ swaplog' = <<Ev("release", engine, "begin"), Ev("load", j, "begin")>>

\* _switch_model, step 1: capture the old engine and dispatch its release.
BeginSwitch(j) ==
    /\ wpc' = "release"
    /\ wjob' = j
    /\ old_engine' = engine
    /\ old_spec' = current_model_spec
    /\ new_engine' = new_engine
    /\ active' = active \cup {Call("release", engine, "worker", j)}
    /\ swaplog' = <<Ev("release", engine, "begin")>>

\* Core inference: dispatch engine.transcribe_file of job j.
BeginTranscribe(j) ==
    /\ wpc' = "transcribe"
    /\ wjob' = j
    /\ active' = active \cup {Call("transcribe", engine, "worker", j)}

\* `job = await self.queue.get()` and the code up to the first dispatch.
Dequeue ==
    /\ LoopFree
    /\ WorkerAtGet
    /\ queue # <<>>
    /\ queue' = Tail(queue)
    /\ LET j == Head(queue) IN
       IF j = Sentinel
       THEN /\ wpc' = "done"
            /\ UNCHANGED <<active, wjob, old_engine, old_spec, new_engine,
                           future, scratch, swaplog, prev>>
       ELSE IF DegradedGuard
       THEN /\ FinishJob(j, "exc_degraded")
            /\ UNCHANGED active
       ELSE IF NeedsSwitch(j)
       THEN /\ BeginSwitch(j)
            /\ UNCHANGED <<future, scratch, prev>>
       ELSE /\ BeginTranscribe(j)
            /\ UNCHANGED <<old_engine, old_spec, new_engine, future, scratch,
                           swaplog, prev>>
    /\ UNCHANGED <<lpc, is_running, engine, current_model_spec,
                   engine_degraded, loaded, req, spec_for_response, route,
                   status, raced>>

\* old_engine.release() returns or raises; on success the factory builds the
\* new engine and its load is dispatched.
ReleaseEnd ==
    /\ LoopFree
    /\ wpc = "release"
    /\ \E c \in WorkerCalls, ok \in BOOLEAN :
        IF ok
        THEN /\ loaded' = ReleaseEffect(old_engine)
             /\ \E built \in BOOLEAN :
                 IF built
                 THEN /\ new_engine' = wjob
                      /\ wpc' = "load"
                      /\ active' = (active \ {c}) \cup
                            {[op |-> "load", inst |-> wjob, by |-> "worker",
                              job |-> wjob, ld |-> FALSE]}
                      /\ swaplog' = swaplog \o
                            <<Ev("release", old_engine, "ok"),
                              Ev("load", wjob, "begin")>>
                      /\ UNCHANGED <<wjob, old_engine, old_spec, future,
                                     scratch, prev>>
                 ELSE \* create_engine_for_spec raises
                      /\ active' = active \ {c}
                      /\ FinishJob(wjob, "exc_factory")
        ELSE \* release raises; the model may or may not be gone already
             /\ \E cleared \in BOOLEAN :
                   loaded' = IF cleared THEN ReleaseEffect(old_engine)
                             ELSE loaded
             /\ active' = active \ {c}
             /\ FinishJob(wjob, "exc_release")
    /\ UNCHANGED <<lpc, queue, is_running, engine, current_model_spec,
                   engine_degraded, req, spec_for_response, route, status,
                   raced>>

\* step 3 replaces self.engine and leaves self._current_model_spec
LoadEnd_StaleSpec ==
    /\ LoopFree
    /\ wpc = "load"
    /\ \E c \in WorkerCalls, ok \in BOOLEAN :
        IF ok
        THEN /\ loaded' = LoadEffect(new_engine)
             /\ engine' = new_engine
             /\ current_model_spec' = current_model_spec
             /\ wpc' = "transcribe"
             /\ active' = (active \ {c}) \cup
                   {[op |-> "transcribe", inst |-> new_engine,
                     by |-> "worker", job |-> wjob, ld |-> TRUE]}
             /\ old_engine' = 0
             /\ old_spec' = NoSpec
             /\ new_engine' = 0
             /\ swaplog' = <<>>
        ELSE /\ wpc' = "restore"
             /\ active' = (active \ {c}) \cup
                   {Call("load", old_engine, "worker", wjob)}
             /\ swaplog' = swaplog \o
                   <<Ev("load", new_engine, "fail"),
                     Ev("load", old_engine, "begin")>>
             /\ UNCHANGED <<loaded, engine, current_model_spec, old_engine,
                            old_spec, new_engine>>
    /\ UNCHANGED <<lpc, queue, is_running, engine_degraded, wjob, req,
                   spec_for_response, route, status, future, scratch, raced,
                   prev>>

\* new_engine.load() returns or raises.
LoadEnd ==
    /\ LoopFree
    /\ wpc = "load"
    /\ \E c \in WorkerCalls, ok \in BOOLEAN :
        IF ok
        THEN \* step 3, then the core inference on the new engine
             /\ loaded' = LoadEffect(new_engine)
             /\ engine' = new_engine
             /\ current_model_spec' = req[wjob]
             /\ wpc' = "transcribe"
             /\ active' = (active \ {c}) \cup
                   {[op |-> "transcribe", inst |-> new_engine,
                     by |-> "worker", job |-> wjob, ld |-> TRUE]}
             /\ old_engine' = 0
             /\ old_spec' = NoSpec
             /\ new_engine' = 0
             /\ swaplog' = <<>>
        ELSE \* dispatch the restore load of the old engine
             /\ wpc' = "restore"
             /\ active' = (active \ {c}) \cup
                   {Call("load", old_engine, "worker", wjob)}
             /\ swaplog' = swaplog \o
                   <<Ev("load", new_engine, "fail"),
                     Ev("load", old_engine, "begin")>>
             /\ UNCHANGED <<loaded, engine, current_model_spec, old_engine,
                            old_spec, new_engine>>
    /\ UNCHANGED <<lpc, queue, is_running, engine_degraded, wjob, req,
                   spec_for_response, route, status, future, scratch, raced,
                   prev>>

DegradedAfterRestore_Set == TRUE

\* The value of _engine_degraded after a restore that succeeded.
DegradedAfterRestore == engine_degraded

\* old_engine.load() (the restore) returns or raises.
RestoreEnd ==
    /\ LoopFree
    /\ wpc = "restore"
    /\ \E c \in WorkerCalls, ok \in BOOLEAN :
        /\ active' = active \ {c}
        /\ IF ok
           THEN /\ loaded' = [loaded EXCEPT ![old_engine] = ~raced]
                /\ engine' = old_engine
                /\ current_model_spec' = old_spec
                /\ engine_degraded' = DegradedAfterRestore
                /\ FinishJob(wjob, "exc_load")
           ELSE /\ engine_degraded' = TRUE
                /\ FinishJob(wjob, "exc_unrecoverable")
                /\ UNCHANGED <<loaded, engine, current_model_spec>>
    /\ raced' = FALSE
    /\ UNCHANGED <<lpc, queue, is_running, req, spec_for_response, route,
                   status>>

\* engine.transcribe_file returns or raises; it raises when the model was
\* not loaded at the call.
TranscribeEnd ==
    /\ LoopFree
    /\ wpc = "transcribe"
    /\ \E c \in WorkerCalls, ok \in BOOLEAN :
        /\ c.op = "transcribe" /\ c.job = wjob
        /\ ok => c.ld
        /\ active' = active \ {c}
        /\ FinishJob(wjob, IF ok THEN "result" ELSE "exc_backend")
    /\ UNCHANGED <<lpc, queue, is_running, engine, current_model_spec,
                   engine_degraded, loaded, req, spec_for_response, route,
                   status, raced>>

\* ---- shutdown: stop_worker, then engine.release() in the lifespan ----
StopWorker ==
    /\ lpc = "running"
    /\ is_running' = FALSE
    /\ IF Len(queue) < Q
       THEN /\ queue' = Enqueue(queue, Sentinel)
            /\ lpc' = "stopped"
       ELSE /\ queue' = queue
            /\ lpc' = "stopping"
    /\ UNCHANGED <<engine, current_model_spec, engine_degraded, loaded, active,
                   wpc, wjob, old_engine, old_spec, new_engine, req,
                   spec_for_response, route, status, future, scratch, swaplog,
                   raced, prev>>

\* A producer suspended in `await self.queue.put(...)` resumes when the
\* queue has room: the stop_worker call, or a submit.
QueuePut(x) ==
    /\ LoopFree
    /\ Len(queue) < Q
    /\ \/ x = Sentinel /\ lpc = "stopping"
       \/ x \in Jobs /\ status[x] = "putwait"
    /\ queue' = Enqueue(queue, x)
    /\ IF x = Sentinel
       THEN lpc' = "stopped" /\ status' = status
       ELSE lpc' = lpc /\ status' = [status EXCEPT ![x] = "waiting"]
    /\ UNCHANGED <<is_running, engine, current_model_spec, engine_degraded,
                   loaded, active, wpc, wjob, old_engine, old_spec, new_engine,
                   req, spec_for_response, route, future, scratch, swaplog,
                   raced, prev>>

\* app.state.service.engine.release(), run on the event-loop thread while a
\* call of the worker may be running in the thread pool.
LifespanReleaseBegin ==
    /\ lpc = "stopped"
    /\ lpc' = "releasing"
    /\ active' = active \cup {Call("release", engine, "lifespan", 0)}
    /\ IF \E c \in active : c.op = "load" /\ c.inst = engine
       THEN \* races with the restore load of the same instance: either the
            \* release finds no model yet, or it clears the one just set
            /\ raced' \in BOOLEAN
            /\ loaded' = loaded
       ELSE /\ raced' = raced
            /\ \E cleared \in BOOLEAN :
                  loaded' = IF cleared \/ ~loaded[engine]
                            THEN ReleaseEffect(engine) ELSE loaded
    /\ UNCHANGED <<queue, is_running, engine, current_model_spec,
                   engine_degraded, wpc, wjob, old_engine, old_spec,
                   new_engine, req, spec_for_response, route, status, future,
                   scratch, swaplog, prev>>

LifespanReleaseEnd ==
    /\ lpc = "releasing"
    /\ lpc' = "released"
    /\ active' = {c \in active : c.by # "lifespan"}
    /\ UNCHANGED <<queue, is_running, engine, current_model_spec,
                   engine_degraded, loaded, wpc, wjob, old_engine, old_spec,
                   new_engine, req, spec_for_response, route, status, future,
                   scratch, swaplog, raced, prev>>

\* ---- the admission checks on their own ----
\* The requests enumerated for create_transcription.
ContentTypes ==
    {"audio/wav", "application/octet-stream", "text/plain", None}
Filenames == {"a.WAV", "a.txt", None, "a.wav.txt", "wav"}
UploadLimitBytes == MAX_UPLOAD_SIZE_MB * 1024 * 1024
UploadSizes ==
    {0, UploadLimitBytes, UploadLimitBytes + 1,
     UploadLimitBytes + 1024 * 1024}
ModelValues ==
    {None, "whisper-1", "qwen3-asr", "sensevoice-small", "iic/custom-asr",
     "not-a-real-model"}
FormatValues == {"json", "txt", "srt", "verbose_json", "text", "vtt", "xml"}

Requests ==
    [pc : {"start"},
     content_type : ContentTypes,
     filename : Filenames,
     size : UploadSizes,
     model : ModelValues,
     response_format : FormatValues \cup {None},
     output_format : FormatValues,
     with_timestamp : BOOLEAN,
     pos : {0}, code : {0}, detail : {""}, job : {0},
     request_id : {"rid-1"}, exc : {NoExc},
     resolved_spec : {None}, effective_format : {None}]

\* The service after startup by main.py, or after job 1 has swapped to
\* sensevoice-small and was answered; then n requests that named a model
\* are admitted and not yet taken by the worker, and one request arrives.
AdmInit ==
    /\ lpc = "running"
    /\ is_running = TRUE
    /\ wpc = "get"
    /\ engine_degraded = FALSE
    /\ active = {}
    /\ wjob = 0
    /\ old_engine = 0
    /\ old_spec = NoSpec
    /\ new_engine = 0
    /\ swaplog = <<>>
    /\ raced = FALSE
    /\ \E s \in 0..1, n \in 0..Q :
         /\ s + n < MaxJobs
         /\ engine = s
         /\ prev = s
         /\ loaded = [e \in Engines |-> e = s]
         /\ current_model_spec =
               IF s = 0 THEN NoSpec ELSE "sensevoice-small"
         /\ queue = [i \in 1..n |-> s + i]
         /\ req = [j \in Jobs |->
                     IF j <= s THEN "sensevoice-small"
                     ELSE IF j <= s + n THEN "qwen3-asr" ELSE NoSpec]
         /\ spec_for_response = req
         /\ status = [j \in Jobs |->
                        IF j <= s THEN "returned"
                        ELSE IF j <= s + n THEN "waiting" ELSE "new"]
         /\ future = [j \in Jobs |->
                        IF j <= s THEN "result"
                        ELSE IF j <= s + n THEN "pending" ELSE "none"]
         /\ scratch = [j \in Jobs |-> s < j /\ j <= s + n]
    /\ route \in Requests

AdmNext == \E j \in Jobs : create_transcription(j)

AdmSpec == AdmInit /\ [][AdmNext]_vars

\* ---- the answer of the route to a job the worker has finished ----
RequestIds == {"rid-1", "rid-2"}
\* a registered alias, and a path that lookup turns into an ad-hoc spec
ErrModels == {"qwen3-asr", "iic/Queue is full"}
\* messages of the exceptions the backend libraries raise
BackendTexts ==
    {"out of memory", "/Users/admin/.cache/model.bin failed to load"}
BackendErrors == [type : {"RuntimeError", "OSError"}, text : BackendTexts]
WorkerOutcomes ==
    {"result", "exc_backend", "exc_release", "exc_factory", "exc_load",
     "exc_unrecoverable"}

\* The exceptions _consume_loop can set on the future of a job that asked
\* for model m while old was current, by outcome.
WorkerErrors(o, m, old) ==
    CASE o = "result" -> {NoExc}
      [] o = "exc_backend" -> BackendErrors \cup {NotLoadedError}
      [] o = "exc_release" ->
           {ReleaseAbortError(alias_or_unknown(old), e) : e \in BackendErrors}
      [] o = "exc_factory" -> BackendErrors
      [] o = "exc_load" -> BackendErrors
      [] o = "exc_unrecoverable" ->
           {UnrecoverableError(m, e, alias_or_unknown(old), e) :
              e \in BackendErrors}

\* The service after the worker has finished job 1, the first job, which
\* asked for model m: every outcome of _consume_loop for it, with the
\* handler of the request still suspended in submit.
ErrInit ==
    /\ lpc = "running"
    /\ is_running = TRUE
    /\ wpc = "get"
    /\ active = {}
    /\ queue = <<>>
    /\ wjob = 0
    /\ old_engine = 0
    /\ old_spec = NoSpec
    /\ new_engine = 0
    /\ swaplog = <<>>
    /\ raced = FALSE
    /\ prev = 1
    /\ status = [j \in Jobs |-> IF j = 1 THEN "waiting" ELSE "new"]
    /\ scratch = [j \in Jobs |-> FALSE]
    /\ \E o \in WorkerOutcomes, m \in ErrModels, old \in {NoSpec, StartSpec},
          rid \in RequestIds :
         /\ future = [j \in Jobs |-> IF j = 1 THEN o ELSE "none"]
         /\ req = [j \in Jobs |-> IF j = 1 THEN lookup_alias(m) ELSE NoSpec]
         /\ spec_for_response = req
         /\ engine_degraded = (o = "exc_unrecoverable")
         /\ engine = IF o \in {"result", "exc_backend"} THEN 1 ELSE 0
         /\ current_model_spec =
               IF o \in {"result", "exc_backend"} THEN lookup_alias(m) ELSE old
         /\ \E l \in BOOLEAN :
               /\ o = "exc_release" \/ l
               /\ loaded =
                     [e \in Engines |->
                        CASE o \in {"result", "exc_backend"} -> e = 1
                          [] o \in {"exc_load"} -> e = 0
                          [] o = "exc_release" -> e = 0 /\ l
                          [] OTHER -> FALSE]
         /\ \E x \in WorkerErrors(o, m, old) :
               route =
                  [pc |-> "waiting", content_type |-> "audio/wav",
                   filename |-> "a.WAV", size |-> 0, model |-> m,
                   response_format |-> None, output_format |-> "json",
                   with_timestamp |-> FALSE, pos |-> 0, code |-> 0,
                   detail |-> "", job |-> 1, request_id |-> rid, exc |-> x,
                   resolved_spec |-> lookup_alias(m), effective_format |-> "json"]

ErrNext == \E j \in Jobs : create_transcription_resume(j)

ErrSpec == ErrInit /\ [][ErrNext]_vars

\* ---- model resolution on its own ----
\* The `model` form values enumerated: aliases and model ids of the
\* registry, unregistered paths, unknown names, passthrough values.
LookupInputs ==
    DOMAIN _REGISTRY \cup {_REGISTRY[a].model_id : a \in DOMAIN _REGISTRY}
    \cup {"mlx-community/some-custom-model", "iic/some-custom-model",
          "my-FunASR-model", "mlx-community/funasr-x", "not-a-real-model",
          "Paraformer", None, "", "whisper-1"}

\* no call of lookup was made
NotCalled == Returned(AdHocSpec("", None))

Unresolved == [model |-> None, called |-> FALSE, outcome |-> NotCalled]

\* Step 3 of create_transcription for a request that names m:
\* _resolve_model(m).  `before` keeps the resolution of the request before.
ResolveModel(m) ==
    /\ route.pc \in {"start", "resolved"}
    /\ route' =
          [pc |-> "resolved",
           model |-> m,
           called |-> ~is_passthrough(m),
           outcome |-> IF is_passthrough(m) THEN NotCalled ELSE lookup(m),
           resolved_spec |-> _resolve_model(m),
           code |-> IF _resolve_model(m) = "ValueError" THEN 400 ELSE 0,
           before |-> [model |-> route.model, called |-> route.called,
                       outcome |-> route.outcome]]
    /\ UNCHANGED <<lpc, queue, is_running, engine, current_model_spec,
                   engine_degraded, loaded, active, wpc, wjob, old_engine,
                   old_spec, new_engine, req, spec_for_response, status,
                   future, scratch, swaplog, raced, prev>>

\* the service after startup by main.py, no request made yet
RegInit ==
    /\ lpc = "running"
    /\ queue = <<>>
    /\ is_running = TRUE
    /\ engine = 0
    /\ current_model_spec = NoSpec
    /\ engine_degraded = FALSE
    /\ loaded = [e \in Engines |-> e = 0]
    /\ active = {}
    /\ wpc = "get"
    /\ wjob = 0
    /\ old_engine = 0
    /\ old_spec = NoSpec
    /\ new_engine = 0
    /\ req = [j \in Jobs |-> NoSpec]
    /\ spec_for_response = [j \in Jobs |-> NoSpec]
    /\ status = [j \in Jobs |-> "new"]
    /\ future = [j \in Jobs |-> "none"]
    /\ scratch = [j \in Jobs |-> FALSE]
    /\ swaplog = <<>>
    /\ raced = FALSE
    /\ prev = 0
    /\ route = [pc |-> "start", model |-> None, called |-> FALSE,
                outcome |-> NotCalled, resolved_spec |-> NoSpec, code |-> 0,
                before |-> Unresolved]

RegNext == \E m \in LookupInputs : ResolveModel(m)

RegSpec == RegInit /\ [][RegNext]_vars

\* ---- the backends on their own: load, transcribe_file, release ----
\* A backend is described by `model` (self.model is not None); a call
\* gives the value of `model` after it and what happened: for load,
\* "skip" (already loaded), "built" (the model constructor returned) or
\* "fail" (the constructor raised); for transcribe_file, "notloaded" (the
\* RuntimeError of the guard), "ok" or "fail"; for release, "noop", "ok" or
\* "fail" (the cache call raised after the model was dropped).

\* load() constructs the model whether or not one is loaded
load_NoGuard(model, ok) ==
    IF ok THEN [model |-> TRUE, ev |-> "built"]
    ELSE [model |-> model, ev |-> "fail"]

FunASREngine_load(model, ok) ==
    IF model THEN [model |-> model, ev |-> "skip"]
    ELSE IF ok THEN [model |-> TRUE, ev |-> "built"]
    ELSE [model |-> FALSE, ev |-> "fail"]

MlxAudioEngine_load(model, ok) ==
    IF model THEN [model |-> model, ev |-> "skip"]
    ELSE IF ok THEN [model |-> TRUE, ev |-> "built"]
    ELSE [model |-> FALSE, ev |-> "fail"]

\* transcribe_file() runs the inference whether or not a model is loaded
transcribe_file_NoGuard(model, ok) ==
    [model |-> model, ev |-> IF ok THEN "ok" ELSE "fail"]

FunASREngine_transcribe_file(model, ok) ==
    IF ~model THEN [model |-> model, ev |-> "notloaded"]
    ELSE [model |-> model, ev |-> IF ok THEN "ok" ELSE "fail"]

MlxAudioEngine_transcribe_file(model, ok) ==
    IF ~model THEN [model |-> model, ev |-> "notloaded"]
    ELSE [model |-> model, ev |-> IF ok THEN "ok" ELSE "fail"]

\* torch.mps.empty_cache() / torch.cuda.empty_cache() may raise
FunASREngine_release(model, ok) ==
    IF model THEN [model |-> FALSE, ev |-> IF ok THEN "ok" ELSE "fail"]
    ELSE [model |-> FALSE, ev |-> "noop"]

MlxAudioEngine_release(model, ok) ==
    IF model THEN [model |-> FALSE, ev |-> "ok"]
    ELSE [model |-> FALSE, ev |-> "noop"]

\* instance 0 is the FunASREngine of the startup model, instance 1 the
\* MlxAudioEngine built for qwen3-asr
Backends == {0, 1}
IsFunASR(e) == _REGISTRY[EngineSpec(e)].engine_type = "funasr"

BackendCall(op, e, ok) ==
    CASE op = "load" ->
           IF IsFunASR(e) THEN FunASREngine_load(loaded[e], ok)
           ELSE MlxAudioEngine_load(loaded[e], ok)
      [] op = "transcribe" ->
           IF IsFunASR(e) THEN FunASREngine_transcribe_file(loaded[e], ok)
           ELSE MlxAudioEngine_transcribe_file(loaded[e], ok)
      [] op = "release" ->
           IF IsFunASR(e) THEN FunASREngine_release(loaded[e], ok)
           ELSE MlxAudioEngine_release(loaded[e], ok)

\* One call of op on backend e by a caller that holds it alone; swaplog is
\* the log of the calls made.
EngineCall(op, e) ==
    /\ Len(swaplog) < MaxCalls
    /\ \E ok \in BOOLEAN :
         /\ loaded' = [loaded EXCEPT ![e] = BackendCall(op, e, ok).model]
         /\ swaplog' = Append(swaplog, Ev(op, e, BackendCall(op, e, ok).ev))
    /\ UNCHANGED <<lpc, queue, is_running, engine, current_model_spec,
                   engine_degraded, active, wpc, wjob, old_engine, old_spec,
                   new_engine, req, spec_for_response, route, status,
                   future, scratch, raced, prev>>

\* two backends just constructed, no service around them
EngInit ==
    /\ lpc = "boot"
    /\ queue = <<>>
    /\ is_running = FALSE
    /\ engine = 0
    /\ current_model_spec = NoSpec
    /\ engine_degraded = FALSE
    /\ loaded = [e \in Engines |-> FALSE]
    /\ active = {}
    /\ wpc = "idle"
    /\ wjob = 0
    /\ old_engine = 0
    /\ old_spec = NoSpec
    /\ new_engine = 0
    /\ req = [j \in Jobs |-> IF j = 1 THEN "qwen3-asr" ELSE NoSpec]
    /\ spec_for_response = [j \in Jobs |-> NoSpec]
    /\ route = NoRequest
    /\ status = [j \in Jobs |-> "new"]
    /\ future = [j \in Jobs |-> "none"]
    /\ scratch = [j \in Jobs |-> FALSE]
    /\ swaplog = <<>>
    /\ raced = FALSE
    /\ prev = 0

EngNext ==
    \E op \in {"load", "transcribe", "release"}, e \in Backends :
       EngineCall(op, e)

EngSpec == EngInit /\ [][EngNext]_vars

\* ---- the running service with clients that disconnect ----
\* the requests name no model or qwen3-asr
CancelNext ==
    \/ LifespanStartup
    \/ \E j \in Jobs, r \in {NoSpec, "qwen3-asr"} :
          SubmitFromRoute(j, r) /\ UNCHANGED route
    \/ \E j \in Jobs : WaiterReturn(j)
    \/ \E j \in Jobs : WaiterCancel(j)
    \/ Dequeue
    \/ ReleaseEnd
    \/ LoadEnd
    \/ RestoreEnd
    \/ TranscribeEnd

CancelSpec == Init /\ [][CancelNext]_vars

\* ---- one request admitted behind queued swaps, and the worker ----
\* The service runs on the startup engine with n jobs in the queue that
\* named sensevoice-small or qwen3-asr; one more request arrives, is checked
\* and, if admitted, is processed by the worker after the queued ones.
TsRequests ==
    {rq \in Requests :
        /\ rq.content_type = "audio/wav" /\ rq.filename = "a.WAV"
        /\ rq.size = 0
        /\ rq.model \in {None, "whisper-1", "qwen3-asr", "sensevoice-small"}
        /\ rq.response_format = None
        /\ rq.output_format \in {"json", "srt", "vtt"}}

TsInit ==
    /\ lpc = "running"
    /\ is_running = TRUE
    /\ wpc = "get"
    /\ engine = 0
    /\ engine_degraded = FALSE
    /\ loaded = [e \in Engines |-> e = 0]
    /\ active = {}
    /\ wjob = 0
    /\ old_engine = 0
    /\ old_spec = NoSpec
    /\ new_engine = 0
    /\ swaplog = <<>>
    /\ raced = FALSE
    /\ prev = 0
    /\ current_model_spec \in {NoSpec, StartSpec}
    /\ \E n \in 0..Q :
         /\ n < MaxJobs
         /\ queue = [i \in 1..n |-> i]
         /\ \E named \in [1..n -> {"sensevoice-small", "qwen3-asr"}] :
               req = [j \in Jobs |-> IF j <= n THEN named[j] ELSE NoSpec]
         /\ status = [j \in Jobs |-> IF j <= n THEN "waiting" ELSE "new"]
         /\ future = [j \in Jobs |-> IF j <= n THEN "pending" ELSE "none"]
         /\ scratch = [j \in Jobs |-> j <= n]
    /\ spec_for_response = req
    /\ route \in TsRequests

TsNext ==
    \/ \E j \in Jobs : create_transcription(j)
    \/ Dequeue
    \/ ReleaseEnd
    \/ LoadEnd
    \/ RestoreEnd
    \/ TranscribeEnd

TsSpec == TsInit /\ [][TsNext]_vars

\* ======================= properties =======================

Admitted(j) == status[j] \in {"waiting", "returned"}
Published(j) == future[j] \notin {"none", "pending"}
Range(q) == {q[i] : i \in 1..Len(q)}
\* The step in which the worker takes job j from the queue.
DequeueStep(j) == queue # <<>> /\ Head(queue) = j /\ queue' = Tail(queue)

\* C1: at most one backend transcribe call is executing in every reachable
\* state, and a transcribe that is executing is the one of the job the worker
\* is processing (the next one starts only after it returned or raised).
C1_OneInferenceInFlight ==
    /\ Cardinality({c \in active : c.op = "transcribe"}) <= 1
    /\ \A c \in active :
          c.op = "transcribe" => wpc = "transcribe" /\ c.job = wjob

\* a transcribe is running after an earlier job finished, with a job queued
C1_Witness ==
    /\ \E c \in active : c.op = "transcribe"
    /\ prev # 0
    /\ \E i \in 1..Len(queue) : queue[i] \in Jobs

\* C2: in every reachable state at most one backend instance is loaded.
C2_AtMostOneLoaded == Cardinality({e \in Engines : loaded[e]}) <= 1

\* after a swap the new instance is loaded and the startup one is not
C2_Witness == engine # 0 /\ loaded[engine] /\ ~loaded[0]

\* C3: within a swap the worker has at most one backend call in progress; the
\* load of the incoming backend is dispatched only after the release of the
\* outgoing one returned, and the restore load of the old backend only after
\* the load of the incoming one failed.
C3_SwapStepsSequential ==
    /\ Cardinality(WorkerCalls) <= 1
    /\ \A i \in 1..Len(swaplog) :
          (swaplog[i].op = "load" /\ swaplog[i].ev = "begin") =>
             IF swaplog[i].inst = old_engine
             THEN i > 1 /\ swaplog[i-1] = Ev("load", new_engine, "fail")
             ELSE i > 1 /\ swaplog[i-1] = Ev("release", old_engine, "ok")

\* the restore load is in progress, after a release and a failed load
C3_Witness == wpc = "restore" /\ Len(swaplog) = 5

\* C4 (as claimed): once the worker has returned, every admitted job has
\* exactly one publication (a result or an error) on its future.
C4_Claim ==
    wpc = "done" => \A j \in Jobs : Admitted(j) => Published(j)

\* C5: a job whose result or error is published, and so every job whose
\* waiter has observed it, has no scratch directory left.
C5_ScratchReclaimed ==
    \A j \in Jobs :
       (Published(j) \/ status[j] = "returned") => ~scratch[j]

\* three waiters have returned: a success, a failed swap, a degraded shortcut
C5_Witness ==
    \E a, b, c \in Jobs :
       /\ status[a] = "returned" /\ future[a] = "result"
       /\ status[b] = "returned" /\ future[b] = "exc_unrecoverable"
       /\ status[c] = "returned" /\ future[c] = "exc_degraded"

\* C6: the queue never holds more than Q entries, and a submit that finds Q
\* entries is rejected at once: nothing is enqueued and no scratch directory
\* or future is created; a rejected job is never in the queue.
C6_BoundedQueue ==
    /\ [](Len(queue) <= Q)
    /\ [](\A j \in Jobs : status[j] = "rejected" =>
             ~scratch[j] /\ j \notin Range(queue) /\ future[j] = "none")
    /\ [][\A j \in Jobs :
            (status[j] = "new" /\ status'[j] # "new" /\ Len(queue) = Q) =>
               /\ status'[j] = "rejected"
               /\ queue' = queue
               /\ scratch' = scratch
               /\ future' = future]_vars

\* a submit was rejected and the queue is full
C6_Witness == Len(queue) = Q /\ \E j \in Jobs : status[j] = "rejected"

\* C7 (as claimed): when the worker has returned, no admitted job is left in
\* the queue: each was processed, its result or error published and its
\* scratch directory deleted.
C7_Claim ==
    wpc = "done" =>
       \A j \in Jobs : Admitted(j) =>
          j \notin Range(queue) /\ Published(j) /\ ~scratch[j]

\* C8: the degraded flag is never cleared; while it is set the worker has no
\* backend call in progress, and a job dequeued while it is set fails with
\* the degraded-service error in the same step, without any backend call.
C8_DegradedSticky ==
    /\ [](engine_degraded => WorkerCalls = {})
    /\ [][engine_degraded => engine_degraded']_vars
    /\ [][\A j \in Jobs :
            (engine_degraded /\ DequeueStep(j)) =>
               /\ future'[j] = "exc_degraded"
               /\ active' = active
               /\ loaded' = loaded
               /\ wpc' \in {"get", "done"}]_vars

\* a job failed with the degraded-service error
C8_Witness == \E j \in Jobs : future[j] = "exc_degraded"

\* The step in which the worker resumes from a restore load that succeeded:
\* it fails the job that requested the swap with the load error.
RestoreOkStep == wpc = "restore" /\ future'[wjob] = "exc_load"

\* C9 (as claimed): when the load of the new backend failed and the restore
\* load succeeded, the triggering job fails with the load error, the current
\* backend and spec are those of before the swap, that backend is loaded
\* again and degraded is false; the next job, if it names no model or the
\* current one, is dispatched to transcribe on that loaded backend without
\* any release or load.
C9_Claim ==
    /\ [][RestoreOkStep =>
            /\ engine' = engine /\ engine' = old_engine
            /\ current_model_spec' = current_model_spec
            /\ current_model_spec' = old_spec
            /\ loaded'[engine']
            /\ ~engine_degraded']_vars
    /\ [][\A j \in Jobs :
            (/\ prev # 0
             /\ future[prev] = "exc_load"
             /\ DequeueStep(j)
             /\ req[j] \in {NoSpec, current_model_spec}) =>
               /\ active' = active \cup
                     {[op |-> "transcribe", inst |-> engine, by |-> "worker",
                       job |-> j, ld |-> TRUE]}
               /\ engine' = engine
               /\ current_model_spec' = current_model_spec
               /\ ~engine_degraded']_vars

\* C10: degraded is set exactly when some job failed with the
\* engine-unrecoverable error, and the step that sets it is the return of a
\* failed restore load that follows a failed load of the new backend in the
\* same swap; that step fails the triggering job with engine-unrecoverable.
C10_DegradedIff ==
    /\ [](engine_degraded <=>
             \E j \in Jobs : future[j] = "exc_unrecoverable")
    /\ [][(~engine_degraded /\ engine_degraded') =>
            /\ wpc = "restore"
            /\ \E i \in 1..Len(swaplog) :
                  swaplog[i] = Ev("load", new_engine, "fail")
            /\ future'[wjob] = "exc_unrecoverable"]_vars
    /\ [][(wpc = "restore" /\ wpc' # "restore" /\ ~engine_degraded') =>
            future'[wjob] = "exc_load"]_vars

\* the service is degraded
C10_Witness == engine_degraded

\* The step in which the worker resumes from a release of the old backend
\* that raised: it fails the job that requested the swap.
ReleaseFailStep == wpc = "release" /\ future'[wjob] = "exc_release"

\* C11 (as claimed): when the release of the old backend raises, no backend
\* is constructed and no load is dispatched, the current backend and spec
\* are unchanged, degraded stays false and the triggering job fails; the
\* next job, if it names no model or the current one, is dispatched to
\* transcribe on the old backend, which is still loaded.
C11_Claim ==
    /\ [][ReleaseFailStep =>
            /\ engine' = engine /\ engine' = old_engine
            /\ current_model_spec' = current_model_spec
            /\ ~engine_degraded'
            /\ new_engine' = 0
            /\ \A c \in active' : c.op # "load"]_vars
    /\ [][\A j \in Jobs :
            (/\ prev # 0
             /\ future[prev] = "exc_release"
             /\ DequeueStep(j)
             /\ req[j] \in {NoSpec, current_model_spec}) =>
               /\ active' = active \cup
                     {[op |-> "transcribe", inst |-> engine, by |-> "worker",
                       job |-> j, ld |-> TRUE]}
               /\ engine' = engine
               /\ current_model_spec' = current_model_spec
               /\ ~engine_degraded']_vars

\* The worker is inside _switch_model.
SwapInProgress == wpc \in {"release", "load", "restore"}

\* C12 (as claimed): once startup has completed and while no swap is in
\* progress, current_spec is the spec of the backend that is loaded; before
\* the worker has taken any job, the `current` alias of GET /v1/models is
\* the alias of the model loaded at startup.
C12_Claim ==
    /\ (lpc = "running" /\ ~SwapInProgress) =>
          \A e \in Engines : loaded[e] => current_model_spec = EngineSpec(e)
    /\ (lpc = "running" /\ prev = 0 /\ wjob = 0) =>
          list_models_current = _REGISTRY[StartSpec].alias

\* A job that names no model or the current one is processed with
\* transcribe on the current backend as its only backend call: no release,
\* no load, and backend, spec, degraded flag and load state unchanged.
NoSwapForCurrent ==
    /\ [][\A j \in Jobs :
            (DequeueStep(j) /\ req[j] \in {NoSpec, current_model_spec}) =>
               /\ ~SwapInProgress'
               /\ active' \ active \subseteq
                     {Call("transcribe", engine, "worker", j)}
               /\ engine' = engine
               /\ current_model_spec' = current_model_spec
               /\ engine_degraded' = engine_degraded
               /\ loaded' = loaded]_vars
    /\ [][(wpc = "transcribe" /\ wpc' # "transcribe") =>
            /\ wpc' \in {"get", "done"}
            /\ active' \subseteq active
            /\ engine' = engine
            /\ current_model_spec' = current_model_spec
            /\ engine_degraded' = engine_degraded
            /\ loaded' = loaded]_vars

\* The worker takes job j right after a job that requested the same model.
SameModelAsPrevious(j) ==
    DequeueStep(j) /\ prev # 0 /\ req[j] # NoSpec /\ req[j] = req[prev]

\* C13 (as claimed): a job whose requested spec is absent or equal to
\* current_spec causes no release and no load; and of two consecutive jobs
\* requesting the same model the second never triggers a swap.
C13_Claim ==
    /\ NoSwapForCurrent
    /\ [][\A j \in Jobs : SameModelAsPrevious(j) => ~SwapInProgress']_vars

\* C13 (amended): a job whose requested spec is absent or equal to
\* current_spec causes no release and no load; of two consecutive jobs
\* requesting the same model the second triggers a swap only if the swap of
\* the first was aborted (its release, the construction of the new backend
\* or its load failed, so that current_spec stayed the old one).
C13_NoNeedlessSwap ==
    /\ NoSwapForCurrent
    /\ [][\A j \in Jobs :
            (/\ SameModelAsPrevious(j)
             /\ future[prev] \notin {"exc_release", "exc_factory",
                                     "exc_load"}) =>
               ~SwapInProgress']_vars

\* the second of two jobs requesting the same model is transcribed on the
\* backend that the swap of the first one built
C13_Witness ==
    /\ wpc = "transcribe" /\ prev # 0
    /\ req[wjob] # NoSpec /\ req[wjob] = req[prev]
    /\ future[prev] = "result"
    /\ engine = prev
    /\ \E c \in active : c.op = "transcribe" /\ c.inst = prev /\ c.job = wjob

\* C14: the worker takes the jobs in the order of their enqueueing: the
\* queue holds jobs in submission order, all of them later than the one in
\* progress, and a job is taken only when every job enqueued before it has
\* its outcome published.  A job taken while it names a model other than
\* current_spec dispatches its own swap (the release is the call of that
\* job), whatever the previous job swapped to; a job that names a model is
\* transcribed on a backend built for that model.
C14_FifoOrder ==
    /\ [](\A i, k \in 1..Len(queue) :
             (i < k /\ queue[i] \in Jobs /\ queue[k] \in Jobs) =>
                queue[i] < queue[k])
    /\ [](\A i \in 1..Len(queue) :
             queue[i] \in Jobs => queue[i] > wjob /\ queue[i] > prev)
    /\ [](wjob # 0 => wjob > prev)
    /\ [][\A j \in Jobs :
            DequeueStep(j) =>
               \A k \in Jobs :
                  (k < j /\ future[k] # "none") => Published(k)]_vars
    /\ [][\A j \in Jobs :
            (DequeueStep(j) /\ ~engine_degraded /\ NeedsSwitch(j)) =>
               /\ wpc' = "release" /\ wjob' = j
               /\ \E c \in active' : c.op = "release" /\ c.job = j]_vars
    /\ [][\A j \in Jobs :
            (/\ wpc # "transcribe" /\ wpc' = "transcribe" /\ wjob' = j
             /\ req[j] # NoSpec) =>
               EngineSpec(engine') = req[j]]_vars

\* two queued jobs asked for different models: the first swapped away from
\* the startup model and was transcribed, the second swapped back and is
\* being transcribed on the backend built for it
C14_Witness ==
    /\ wpc = "transcribe" /\ wjob # 0 /\ prev # 0
    /\ req[prev] # NoSpec /\ req[prev] # StartSpec
    /\ req[wjob] = StartSpec
    /\ future[prev] = "result"
    /\ engine = wjob
    /\ \E c \in active : c.op = "transcribe" /\ c.inst = wjob

\* C15 (as claimed): when a job succeeds, the `model` field of its response
\* is the alias of the spec of the backend that transcribed it, for requests
\* that named a model and for those that did not.
C15_Claim ==
    [][\A j \in Jobs :
         (future[j] = "pending" /\ future'[j] = "result") =>
            \E c \in active :
               /\ c.op = "transcribe" /\ c.job = j
               /\ response_model(j) = _REGISTRY[EngineSpec(c.inst)].alias]_vars

\* The request under admission has passed the type check, the size check
\* and the model resolution.
ReachedGating ==
    /\ route.pc # "start"
    /\ is_valid_type(route.content_type, route.filename)
    /\ ~exceeds(file_size_mb(route.size), MAX_UPLOAD_SIZE_MB)
    /\ _resolve_model(route.model) # "ValueError"

\* The request asks for timestamps: srt output or with_timestamp.
WantsTimestamp ==
    \/ effective_format(route.response_format, route.output_format) = "srt"
    \/ route.with_timestamp

\* Nothing was created for the request: no job, no scratch directory.
NothingCreated ==
    /\ route.job = 0
    /\ \A j \in Jobs : status[j] = "new" =>
          ~scratch[j] /\ j \notin Range(queue) /\ future[j] = "none"

\* C16 (as claimed): a request that reaches the capability gating is
\* rejected with 400, nothing being created for it, exactly when it asks
\* for timestamps and the effective capabilities lack them: those of the
\* resolved spec when it names a model, those of the current backend
\* otherwise.
C16_Claim ==
    ReachedGating =>
       ((route.code = 400 /\ NothingCreated) <=>
          /\ WantsTimestamp
          /\ ~(IF _resolve_model(route.model) # NoSpec
               THEN spec_timestamp(_resolve_model(route.model))
               ELSE spec_timestamp(EngineSpec(engine))))

\* The formats the specification recognises.
RecognisedFormats == {"json", "txt", "srt", "verbose_json", "text", "vtt"}

\* The error the claimed order of checks gives the request under admission:
\* <<status, details>>, or <<0, {}>> when no check fails.
ClaimedFirstFailure ==
    IF ~is_valid_type(route.content_type, route.filename)
    THEN <<415, {"unsupported file type"}>>
    ELSE IF route.size > UploadLimitBytes
    THEN <<413, {"file size exceeds maximum"}>>
    ELSE IF _resolve_model(route.model) = "ValueError"
    THEN <<400, {"unknown model"}>>
    ELSE IF (IF route.response_format # None THEN route.response_format
             ELSE route.output_format) \notin RecognisedFormats
    THEN <<400, {"unrecognised format"}>>
    ELSE IF /\ WantsTimestamp
            /\ ~(IF _resolve_model(route.model) # NoSpec
                 THEN spec_timestamp(_resolve_model(route.model))
                 ELSE spec_timestamp(EngineSpec(engine)))
    THEN <<400, {"srt requires timestamp",
                 "with_timestamp requires timestamp"}>>
    ELSE IF Len(queue) >= Q
    THEN <<503, {ServerBusyDetail}>>
    ELSE <<0, {}>>

\* C17 (as claimed): a request is answered with the error of the earliest
\* failing check in the order type, size, model resolution, output format,
\* capability gating, queue full; a request that fails no check is handed
\* to the scheduler; a rejected request has had no later step performed:
\* the stream is not repositioned before the size check, no model or format
\* is computed before its step, nothing is created or enqueued.
C17_Claim ==
    [][(route.pc = "start" /\ route'.pc # "start") =>
         /\ IF ClaimedFirstFailure[1] # 0
            THEN /\ route'.code = ClaimedFirstFailure[1]
                 /\ route'.detail \in ClaimedFirstFailure[2]
                 /\ queue' = queue /\ scratch' = scratch
                 /\ future' = future
            ELSE route'.job # 0 /\ route'.code \in {0, 500}
         /\ route'.code = 415 => route'.pos = route.pos
         /\ route'.code \in {415, 413} =>
               route'.resolved_spec = None /\ route'.effective_format = None
       ]_vars

\* The format value the request carries: the legacy response_format when
\* it is present, output_format otherwise.
GivenFormat ==
    IF route.response_format # None THEN route.response_format
    ELSE route.output_format

\* C18: once the route has computed the effective format, it is the image
\* of the legacy response_format when that is present and of output_format
\* otherwise: verbose_json gives json, text gives txt, vtt gives srt, and
\* json, txt, srt give themselves; a job is enqueued with that format.
C18_FormatNormalisation ==
    (route.pc # "start" /\ route.effective_format # None) =>
       /\ GivenFormat = "verbose_json" => route.effective_format = "json"
       /\ GivenFormat = "text" => route.effective_format = "txt"
       /\ GivenFormat = "vtt" => route.effective_format = "srt"
       /\ GivenFormat \in {"json", "txt", "srt"} =>
             route.effective_format = GivenFormat

\* a job is enqueued as srt for response_format = vtt although
\* output_format = json was given too
C18_Witness ==
    /\ route.pc = "waiting"
    /\ route.response_format = "vtt" /\ route.output_format = "json"
    /\ route.effective_format = "srt"
    /\ route.job \in Range(queue)

\* C19 (as claimed): a request whose format value is none of json, txt,
\* srt, verbose_json, text, vtt and that passed the earlier checks is
\* rejected with 400 and nothing is created for it; no job is enqueued with
\* an effective format outside {json, txt, srt}.
C19_Claim ==
    /\ (ReachedGating /\ GivenFormat \notin RecognisedFormats) =>
          route.code = 400 /\ NothingCreated
    /\ route.pc = "waiting" => route.effective_format \in {"json", "txt", "srt"}

\* C20: an upload that passed the type check is rejected with 413 exactly
\* when its byte length is strictly greater than MAX_UPLOAD_SIZE_MB * 2^20
\* (the limit itself passes, the limit plus one byte does not); the stream
\* of an upload that passes is back at position 0, so that a job enqueued
\* for it was given the whole upload.
C20_SizeBoundary ==
    (route.pc # "start" /\ is_valid_type(route.content_type, route.filename))
    =>
       /\ route.code = 413 <=> route.size > MAX_UPLOAD_SIZE_MB * 1024 * 1024
       /\ route.size = UploadLimitBytes => route.code # 413
       /\ route.size = UploadLimitBytes + 1 => route.code = 413
       /\ route.code # 413 => route.pos = 0
       /\ route.code = 413 => NothingCreated

\* an upload of exactly the limit was admitted and its job enqueued, and
\* the service holds no job for an upload one byte larger
C20_Witness ==
    /\ route.size = UploadLimitBytes
    /\ route.pc = "waiting" /\ route.pos = 0
    /\ route.job \in Range(queue)

\* ---- C21 ----
\* str.endswith(suffix)
endswith(str, suffix) ==
    /\ Len(str) >= Len(suffix)
    /\ SubSeq(str, Len(str) - Len(suffix) + 1, Len(str)) = suffix

AudioExtensionNames == {"wav", "mp3", "m4a", "mp4", "flac", "ogg", "webm"}

\* The file name is a stem followed by a dot and one of the audio
\* extensions, in any letter case.
HasAudioExtension(filename) ==
    /\ filename # None
    /\ \E x \in AudioExtensionNames :
          /\ Len(filename) > Len(x) + 1
          /\ endswith(lower(filename), "." \o x)

\* C21: an upload passes the type check iff its declared MIME type is in the
\* audio allow-list, or the type is application/octet-stream and the file
\* name has an audio extension in any letter case; every other upload is
\* answered 415, whatever its extension.
C21_TypeCheck ==
    route.pc # "start" =>
       (route.code # 415 <=>
          \/ route.content_type \in ALLOWED_AUDIO_TYPES
          \/ /\ route.content_type = "application/octet-stream"
             /\ HasAudioExtension(route.filename))

\* an octet-stream upload named a.WAV passed the type check and was admitted
C21_Witness ==
    /\ route.content_type = "application/octet-stream"
    /\ route.filename = "a.WAV"
    /\ route.pc = "waiting"
    /\ route.job \in Jobs
    /\ status[route.job] = "waiting"

\* ---- C22 ----
\* The step in which the route answers a job whose future holds an
\* exception of the worker.
WorkerFailureAnswered ==
    /\ route.pc = "waiting" /\ route'.pc = "done"
    /\ route.exc # NoExc

\* C22 (as claimed): every worker-side failure is answered 500 with a
\* detail that does not contain the text of the internal exception and is
\* the same for every internal exception under the same request id; a full
\* queue is answered 503 with a fixed detail.
C22_Claim ==
    [][/\ WorkerFailureAnswered =>
            /\ route'.code = 500
            /\ ~contains(route'.detail, route.exc.text)
            /\ \A o \in WorkerOutcomes \ {"result"}, m \in ErrModels,
                  old \in {NoSpec, StartSpec} :
                  \A x \in WorkerErrors(o, m, old) :
                     except_handler(x, route.request_id).detail
                        = route'.detail
       /\ (route.pc = "start" /\ route'.code = 503) =>
            route'.detail = ServerBusyDetail
      ]_vars

\* ---- C23 ----
RegisteredModelIds == {_REGISTRY[a].model_id : a \in DOMAIN _REGISTRY}

\* C23: a registered alias resolves to a spec with that alias, and a
\* request by the model_id of a registered spec that follows a request by
\* its alias resolves to the same spec, the spec registered under the alias.
C23_RoundTrip ==
    route.pc = "resolved" =>
       /\ route.model \in DOMAIN _REGISTRY =>
             /\ route.outcome.raised = None
             /\ route.outcome.value.alias = route.model
       /\ \A a \in DOMAIN _REGISTRY :
             (route.before.model = a /\ route.model = _REGISTRY[a].model_id)
             => /\ route.outcome.raised = None
                /\ route.outcome = route.before.outcome
                /\ route.outcome.value = _REGISTRY[a]

\* qwen3-asr was requested by alias, then by its model_id
C23_Witness ==
    /\ route.pc = "resolved"
    /\ route.before.model = "qwen3-asr"
    /\ route.model = "mlx-community/Qwen3-ASR-1.7B-8bit"
    /\ route.outcome.value.alias = "qwen3-asr"

\* ---- C24 ----
\* C24: for a string that is neither a registered alias nor a registered
\* model_id, lookup returns a spec with alias = model_id = the string and no
\* capability, of engine type mlx when the string starts with
\* mlx-community/, else funasr when it starts with iic/ or contains funasr
\* in any letter case; any other string raises the unknown-model error
\* whose message names it.  An alias resolves to its registered spec, a
\* registered model_id that is no alias to the spec registered with it.
C24_LookupResolution ==
    (route.pc = "resolved" /\ route.called) =>
       LET m == route.model
           out == route.outcome
           mlx == startswith(m, "mlx-community/")
           funasr == startswith(m, "iic/") \/ contains(lower(m), "funasr")
       IN  IF m \in DOMAIN _REGISTRY
           THEN out.raised = None /\ out.value = _REGISTRY[m]
           ELSE IF m \in RegisteredModelIds
           THEN out.raised = None /\ out.value.model_id = m
                /\ out.value.alias \in DOMAIN _REGISTRY
           ELSE IF mlx \/ funasr
           THEN /\ out.raised = None
                /\ out.value.alias = m /\ out.value.model_id = m
                /\ out.value.engine_type = IF mlx THEN "mlx" ELSE "funasr"
                /\ ~out.value.timestamp /\ ~out.value.diarization
                /\ ~out.value.emotion_tags /\ ~out.value.language_detect
           ELSE /\ out.raised = "ValueError"
                /\ contains(out.message, m)
                /\ route.code = 400

\* an unregistered name with FunASR in capitals got an ad-hoc funasr spec
C24_Witness ==
    /\ route.pc = "resolved"
    /\ route.model = "my-FunASR-model"
    /\ route.outcome.value.engine_type = "funasr"
    /\ route.before.model = "not-a-real-model"
    /\ route.before.outcome.raised = "ValueError"

\* ---- C25 ----
\* C25: a model value is a passthrough iff it is absent, empty or
\* whisper-1; no registered alias and no registered model_id is one; a
\* passthrough value resolves to no requested spec without a call of lookup.
C25_Passthrough ==
    route.pc = "resolved" =>
       /\ ~route.called <=> route.model \in {None, "", "whisper-1"}
       /\ route.model \in DOMAIN _REGISTRY \cup RegisteredModelIds =>
             route.called /\ route.resolved_spec # NoSpec
       /\ ~route.called =>
             route.resolved_spec = NoSpec /\ route.code = 0
             /\ route.outcome = NotCalled

\* the empty string was resolved as a passthrough, after an alias
C25_Witness ==
    /\ route.pc = "resolved"
    /\ route.model = ""
    /\ ~route.called
    /\ route.resolved_spec = NoSpec
    /\ route.before.model = "paraformer"
    /\ route.before.called

\* ---- C26, C27 ----
\* The step is a call of op on backend e.
CallStep(op, e) ==
    /\ Len(swaplog') = Len(swaplog) + 1
    /\ swaplog'[Len(swaplog')].op = op
    /\ swaplog'[Len(swaplog')].inst = e

\* what happened in the call of the step
CallEv == swaplog'[Len(swaplog')].ev

\* C26: load() on a backend that is loaded is a no-op, for the funasr and
\* the mlx backend: the model constructor is not called and the backend
\* stays loaded, nothing else changes.
C26_LoadIdempotent ==
    [][\A e \in Backends :
          (loaded[e] /\ CallStep("load", e)) =>
             /\ CallEv \notin {"built", "fail"}
             /\ loaded' = loaded]_vars

\* both backends were loaded and then loaded again
C26_Witness ==
    /\ Len(swaplog) = 4
    /\ \A e \in Backends :
          \E i, k \in 1..4 :
             /\ i < k
             /\ swaplog[i] = Ev("load", e, "built")
             /\ swaplog[k] = Ev("load", e, "skip")
    /\ \A e \in Backends : loaded[e]

\* C27: transcribe on a backend that is unloaded, never loaded or released,
\* fails and leaves the backend as it was; release on an unloaded backend
\* raises nothing and leaves it unloaded.
C27_LifecycleErrors ==
    [][\A e \in Backends :
          /\ (~loaded[e] /\ CallStep("transcribe", e)) =>
                CallEv \notin {"ok"} /\ loaded' = loaded
          /\ (~loaded[e] /\ CallStep("release", e)) =>
                CallEv = "noop" /\ loaded' = loaded]_vars

\* a backend was loaded and released, then transcribe failed on it and a
\* second release was tolerated
C27_Witness ==
    \E e \in Backends :
       /\ Len(swaplog) = 4
       /\ swaplog[1] = Ev("load", e, "built")
       /\ swaplog[2].op = "release" /\ swaplog[2].inst = e
       /\ swaplog[3] = Ev("transcribe", e, "notloaded")
       /\ swaplog[4] = Ev("release", e, "noop")
       /\ ~loaded[e]

\* ---- C28 ----
\* C28 (as claimed): no two of load, release and transcribe are in
\* progress on the same backend instance at once, whoever made the calls:
\* the worker for its inference, the swap protocol, or the shutdown path.
C28_Claim ==
    \A c, d \in active : c # d => c.inst # d.inst

\* ---- C29 ----
\* The step in which the transcribe call of job j raises.
TranscribeRaises(j) ==
    /\ wpc = "transcribe" /\ wjob = j
    /\ future[j] = "pending" /\ future'[j] = "exc_backend"

\* C29: when transcribe raises, the job of the call fails with the error and
\* nothing else is touched: current backend, current spec, degraded flag,
\* loaded models, queue and the other jobs' futures are unchanged, and the
\* worker goes on as after a success (to the next get, unless the shutdown
\* was requested).  The next job the worker takes after the failed one, if
\* it needs no swap, is dispatched to transcribe on the current backend.
C29_FailureConfined ==
    [][/\ \A j \in Jobs :
            TranscribeRaises(j) =>
               /\ engine' = engine
               /\ current_model_spec' = current_model_spec
               /\ engine_degraded' = engine_degraded
               /\ loaded' = loaded
               /\ queue' = queue
               /\ \A k \in Jobs \ {j} : future'[k] = future[k]
               /\ wpc' = IF is_running THEN "get" ELSE "done"
               /\ WorkerCalls' = {}
       /\ \A k \in Jobs :
            (/\ DequeueStep(k) /\ wpc = "get"
             /\ prev \in Jobs /\ future[prev] = "exc_backend"
             /\ ~engine_degraded /\ ~NeedsSwitch(k))
            => /\ wpc' = "transcribe" /\ wjob' = k
               /\ \E c \in active' :
                     c.op = "transcribe" /\ c.inst = engine /\ c.job = k
      ]_vars

\* transcribe raised for job 1, and job 2 after it got its result from the
\* same backend
C29_Witness ==
    /\ future[1] = "exc_backend"
    /\ future[2] = "result"
    /\ prev = 2
    /\ req[1] = NoSpec /\ req[2] = NoSpec
    /\ engine = 0 /\ loaded[0]
    /\ ~engine_degraded
    /\ wpc = "get"

\* ---- C30 ----
\* The step in which the worker resumes from a load of the new backend
\* that succeeded, after the release of the old one had succeeded.
SwapSucceeds == wpc = "load" /\ wpc' = "transcribe"

\* C30: at a successful swap the current backend becomes the backend just
\* loaded and the current spec the requested one, in the same step, and the
\* transcribe of the job that triggered the swap is dispatched to the new
\* backend; once the service runs, backend and spec never change one
\* without the other, and the backend built for a job is current only with
\* the spec that job asked for.
C30_SwapAtomic ==
    [][/\ SwapSucceeds =>
            /\ engine' = new_engine /\ engine' # engine
            /\ loaded'[engine']
            /\ current_model_spec' = req[wjob]
            /\ current_model_spec' # current_model_spec
            /\ \E c \in active' :
                  /\ c.op = "transcribe" /\ c.job = wjob
                  /\ c.inst = new_engine /\ c.ld
            /\ \A c \in active' : c.op = "transcribe" => c.inst = new_engine
       /\ lpc # "boot" =>
            /\ (engine' # engine) <=>
                  (current_model_spec' # current_model_spec)
            /\ engine' # engine => SwapSucceeds
       /\ engine' \in Jobs => current_model_spec' = req'[engine']
      ]_vars

\* job 1 swapped the service to qwen3-asr and was transcribed
C30_Witness ==
    /\ engine = 1
    /\ current_model_spec = "qwen3-asr" /\ req[1] = "qwen3-asr"
    /\ loaded[1] /\ ~loaded[0]
    /\ future[1] = "result"
    /\ wpc = "get"

\* ---- C31 ----
\* The step in which the worker finishes job j.
FinishStep(j) == wjob = j /\ wjob' # j

\* C31: a job whose waiter was cancelled after the job was enqueued stays
\* in the queue and in the worker; the worker takes it like any other job,
\* and when it finishes it the future is left cancelled (nothing is set on
\* it, nothing is raised), the scratch directory is deleted and the worker
\* goes on to the next get; until then the job is in the queue or with the
\* worker.
C31_NoCancellation ==
    [][\A j \in Jobs :
          /\ (status[j] = "waiting" /\ status'[j] = "cancelled") =>
                /\ queue' = queue /\ wpc' = wpc /\ wjob' = wjob
                /\ active' = active /\ scratch' = scratch
          /\ (future[j] = "cancelled" /\ DequeueStep(j)) =>
                IF DegradedGuard
                THEN ~scratch'[j] /\ wpc' = "get"
                ELSE /\ wjob' = j
                     /\ wpc' = IF NeedsSwitch(j) THEN "release"
                               ELSE "transcribe"
                     /\ \E c \in active' : c.job = j
          /\ (future[j] = "cancelled" /\ FinishStep(j)) =>
                /\ future'[j] = "cancelled"
                /\ ~scratch'[j]
                /\ wpc' = IF is_running THEN "get" ELSE "done"
          /\ (future'[j] = "cancelled" /\ scratch'[j]) =>
                (\E i \in 1..Len(queue') : queue'[i] = j) \/ wjob' = j
      ]_vars

\* job 1 was abandoned by its client and then finished by the worker, and
\* job 2 after it got its result
C31_Witness ==
    /\ status[1] = "cancelled" /\ future[1] = "cancelled"
    /\ ~scratch[1]
    /\ future[2] = "result"
    /\ prev = 2
    /\ wpc = "get"

\* ---- C32 ----
\* C32: when the copy of the upload into the scratch directory fails, the
\* directory is gone when submit returns, nothing was enqueued or created
\* for the job, and the error reaches the caller: submit raises and the
\* route answers 500.
C32_CopyFailure ==
    [][\A j \in Jobs :
          (status[j] = "new" /\ status'[j] = "ioerror") =>
             /\ ~scratch'[j]
             /\ \A k \in Jobs \ {j} : scratch'[k] = scratch[k]
             /\ queue' = queue
             /\ future' = future /\ future[j] = "none"
             /\ req' = req
             /\ route'.pc = "done" /\ route'.job = j
             /\ route'.exc = CopyError
             /\ route'.code = 500]_vars

\* the copy failed for a request that arrived with one job waiting
C32_Witness ==
    /\ route.pc = "done" /\ route.code = 500 /\ route.exc = CopyError
    /\ route.job \in Jobs
    /\ status[route.job] = "ioerror"
    /\ ~scratch[route.job]
    /\ Len(queue) = 1
    /\ route.job \notin Range(queue)

\* ---- C33 ----
\* the service exists and the event loop can serve a request
Serving == lpc \in {"running", "stopping"}

\* C33 (as claimed): an answer of GET /v1/models/current takes alias,
\* engine_type, model_id and capabilities from the one value of the current
\* spec, in every state the call can be served in, a swap in progress
\* included; the live backend object is not read.
C33_Claim ==
    Serving =>
       /\ get_current_model.raised = None
       /\ ~get_current_model.reads_engine
       /\ \E s \in DOMAIN _REGISTRY :
             /\ s = current_model_spec
             /\ get_current_model.model_alias = _REGISTRY[s].alias
             /\ get_current_model.engine_type = _REGISTRY[s].engine_type
             /\ get_current_model.model_id = _REGISTRY[s].model_id
             /\ get_current_model.timestamp = _REGISTRY[s].timestamp

\* ---- C34 ----
\* C34: a submit that passed the queue-full check puts its job into the
\* queue in the same step: no job is ever suspended in `await queue.put`,
\* and a job that waits for its result was enqueued when it was admitted.
C34_NoSuspendAtPush ==
    [][\A j \in Jobs :
          /\ status'[j] # "putwait"
          /\ (status[j] = "new" /\ status'[j] = "waiting") =>
                /\ Len(queue) < Q
                /\ queue' = Append(queue, j)]_vars

\* with the worker busy the queue was filled to its capacity by admissions,
\* the last of them into the last free place
C34_Witness ==
    /\ Len(queue) = Q
    /\ \A i \in 1..Len(queue) :
          queue[i] \in Jobs /\ status[queue[i]] = "waiting"
    /\ wjob \in Jobs /\ wpc = "transcribe"
    /\ \A j \in Jobs : status[j] \notin {"rejected", "putwait"}

\* ---- C35 ----
\* the job of the request is one whose options require timestamps
JobWantsTimestamp ==
    /\ route.pc = "waiting"
    /\ route.effective_format = "srt" \/ route.with_timestamp

C36_Claim ==
    (lpc = "running" /\ wpc = "get" /\ ~engine_degraded) => loaded[engine]

\* ---- C37 ----
\* the admitted jobs that have neither a result nor an error yet
Unfinished == {j \in Jobs : future[j] = "pending"}

\* C37: every admitted job without result or error is waiting in the queue
\* or is the one job the worker has dequeued and is processing, never
\* both; the queue holds at most Q entries, each job once: at most Q + 1
\* such jobs exist.
C37_UnfinishedBound ==
    /\ Len(queue) <= Q
    /\ \A i, k \in 1..Len(queue) : queue[i] = queue[k] => i = k
    /\ \A j \in Unfinished : (j \in Range(queue)) # (wjob = j)
    /\ Cardinality(Unfinished) <= Q + 1

\* Q jobs wait in the queue while the worker processes one more
C37_Witness ==
    /\ Len(queue) = Q
    /\ Range(queue) \subseteq Unfinished
    /\ wjob \in Unfinished
    /\ wjob \notin Range(queue)
    /\ Cardinality(Unfinished) = Q + 1

\* ---- C38 ----
\* stop_worker is suspended in `await self.queue.put(None)` on a full queue
\* and the worker task has returned: nothing takes an entry from the queue
\* any more, the put never completes.
ShutdownStuck == lpc = "stopping" /\ wpc = "done" /\ Len(queue) >= Q

\* C38 (as claimed): shutdown terminates from every reachable state, a full
\* queue with the worker in the middle of a job included: the sentinel push
\* of stop_worker completes and the worker task returns.  Refutable on a
\* finite run: no state is reached in which the push can never complete.
C38_Claim == ~ShutdownStuck

Next ==
    \/ LifespanStartup
    \/ \E j \in Jobs, r \in Specs \cup {NoSpec} :
          SubmitFromRoute(j, r) /\ UNCHANGED route
    \/ \E j \in Jobs : WaiterReturn(j)
    \/ Dequeue
    \/ ReleaseEnd
    \/ LoadEnd
    \/ RestoreEnd
    \/ TranscribeEnd
    \/ StopWorker
    \/ \E x \in Jobs \cup {Sentinel} : QueuePut(x)
    \/ LifespanReleaseBegin
    \/ LifespanReleaseEnd

Spec == Init /\ [][Next]_vars
====
